---- MODULE Spec2Model ----
(***************************************************************************)
(* Model of src/main.py: the owner-only Telegram handler handle_document,  *)
(* which receives a .txt file of stream URLs, transcodes each URL with     *)
(* ffmpeg into a scoped temporary directory and sends the video back.      *)
(*                                                                         *)
(* One run of the handler is one behaviour.  The update (sender, message,  *)
(* document, file content) is chosen in Init; every awaited call and the   *)
(* subprocess call is one action whose result is chosen from the results   *)
(* the call can produce (a return, or the exception it raises).            *)
(***************************************************************************)
EXTENDS Integers, Sequences, FiniteSets, TLC

\* ------------------------------------------------------------------------
\* Bounds of the model and program constants

\* longest input file, in lines
MaxLines == 3

\* longest input file, in lines, of an update that is delivered twice
MaxRerunLines == 2

\* OWNER_ID (line 37).  The id is beyond the integers TLC handles and the
\* code only compares it for equality, so it is kept as its decimal text.
OWNER_ID == "7833842279"

\* the id of some user who is not the owner
OtherId == "7833842280"

\* ------------------------------------------------------------------------
\* Text: a str is a sequence of one-character strings

Whitespace == {" ", "\n", "\t"}

\* str.lower(), on the characters the inputs are made of
lowerChar(c) ==
  CASE c = "M" -> "m"
    [] c = "P" -> "p"
    [] c = "D" -> "d"
    [] c = "U" -> "u"
    [] c = "T" -> "t"
    [] c = "X" -> "x"
    [] OTHER -> c

lower(s) == [k \in 1..Len(s) |-> lowerChar(s[k])]

RECURSIVE lstrip(_)
lstrip(s) ==
  IF s = <<>> THEN s
  ELSE IF Head(s) \in Whitespace THEN lstrip(Tail(s)) ELSE s

RECURSIVE rstrip(_)
rstrip(s) ==
  IF s = <<>> THEN s
  ELSE IF s[Len(s)] \in Whitespace THEN rstrip(SubSeq(s, 1, Len(s) - 1)) ELSE s

\* str.strip()
strip(s) == rstrip(lstrip(s))

\* str.endswith(suffix)
endswith(s, suffix) ==
  /\ Len(s) >= Len(suffix)
  /\ SubSeq(s, Len(s) - Len(suffix) + 1, Len(s)) = suffix

TxtSuffix == <<".", "t", "x", "t">>
MpdSuffix == <<".", "m", "p", "d">>
M3u8Suffix == <<".", "m", "3", "u", "8">>

\* Variant of IsManifestLine: the suffix is compared without lower()
IsManifestLine_CaseSensitive(line) ==
  \/ endswith(strip(line), MpdSuffix)
  \/ endswith(strip(line), M3u8Suffix)

\* the condition of the list comprehension of line 88
IsManifestLine(line) ==
  \/ endswith(lower(strip(line)), MpdSuffix)
  \/ endswith(lower(strip(line)), M3u8Suffix)

\* urls = [line.strip() for line in lines if ...]
RECURSIVE FilterUrls(_)
FilterUrls(lines) ==
  IF lines = <<>> THEN <<>>
  ELSE IF IsManifestLine(Head(lines))
       THEN <<strip(Head(lines))>> \o FilterUrls(Tail(lines))
       ELSE FilterUrls(Tail(lines))

\* ------------------------------------------------------------------------
\* Inputs the model draws from

\* lines a file may hold: "a.mpd\n", " b.M3U8\n", "c.mp4\n"
LineSet ==
  { <<"a", ".", "m", "p", "d", "\n">>,
    <<" ", "b", ".", "M", "3", "U", "8", "\n">>,
    <<"c", ".", "m", "p", "4", "\n">> }

\* document.file_name: "u.TXT", "v.mp4"
FileNames ==
  { <<"u", ".", "T", "X", "T">>,
    <<"v", ".", "m", "p", "4">> }

\* the two calls of handle_document that are looked at side by side
Handlers == {"first", "second"}

\* names mkdtemp can give a directory
DirNames == {"tmpA", "tmpB", "tmpC"}

NoDir == "none"

\* update.effective_user: <<>> is None, <<id>> a user with that id
Users == { <<>>, <<OWNER_ID>>, <<OtherId>> }

\* update.message.document: <<>> is None, <<name>> a document of that name
Documents == { <<>> } \cup { <<n>> : n \in FileNames }

Files == UNION { [1..n -> LineSet] : n \in 0..MaxLines }

\* paths inside tmpdir
TxtPath == [stem |-> "urls", index |-> 0, ext |-> ".txt"]
\* Variant of VideoPath: the file name leaves the index out
VideoPath_Fixed(i) == [stem |-> "video", index |-> 0, ext |-> ".mp4"]

VideoPath(i) == [stem |-> "video_", index |-> i, ext |-> ".mp4"]

NoUrl == <<>>

\* ------------------------------------------------------------------------
\* State of one run of handle_document

VARIABLES
  user,          \* update.effective_user
  hasMessage,    \* update.message is not None
  document,      \* update.message.document
  fileLines,     \* the lines of the file the document refers to
  run,           \* which delivery of the update this is: 1, or 2 once resent
  prevLog,       \* log of the first delivery, once the update is resent
  prevResults,   \* results of the first delivery, once the update is resent
  hd,            \* two calls of handle_document side by side: where each is
  dirs,          \* the directories that exist in the temporary directory
  disk,          \* the files that exist in them, with the call that wrote each
  pc,            \* the statement the handler is at
  error,         \* the exception propagating out of the handler, or "none"
  tmpdir,        \* the TemporaryDirectory exists on disk
  files,         \* the paths that exist inside tmpdir
  urls,          \* urls (line 88)
  index,         \* index of the for loop (line 100), 0 before the loop
  progress_msg,  \* progress_msg (line 101): the index it was sent for, 0 if unset
  live,          \* progress messages sent and not deleted
  log,           \* every external call made so far, with its result
  results        \* the branch each item ended in, in the order items ended

update == <<user, hasMessage, document, fileLines>>
sideBySide == <<hd, dirs, disk>>
input == <<update, run, prevLog, prevResults, sideBySide>>
ws == <<tmpdir, files>>
loop == <<urls, index>>
msgs == <<progress_msg, live>>
vars == <<input, pc, error, ws, loop, msgs, log, results>>

\* One external call: what was called, the loop iteration that made the call
\* (0 outside the loop), its result, and the index, total and url that its
\* text, caption or command line carries (0 and NoUrl when it carries none)
Entry(kind, item, res, i, total, url) ==
  [kind |-> kind, item |-> item, res |-> res,
   index |-> i, total |-> total, url |-> url]

Call(kind, item, res, i, total, url) ==
  log' = Append(log, Entry(kind, item, res, i, total, url))

\* a reply made outside the loop, with fixed text
Reply(kind, res) == Call(kind, 0, res, 0, 0, NoUrl)

\* the branch the item of the current iteration ends in
Outcome(o) == [index |-> index, url |-> urls[index], outcome |-> o]

\* results of an awaited Telegram call
TelegramResults == {"ok", "TelegramError"}

Init ==
  /\ user \in Users
  /\ hasMessage \in BOOLEAN
  /\ document \in Documents
  /\ fileLines \in Files
  /\ (~hasMessage => document = <<>>)
  /\ (document = <<>> => fileLines = <<>>)
  /\ run = 1
  /\ prevLog = <<>>
  /\ prevResults = <<>>
  /\ hd = [h \in Handlers |->
             [pc |-> "with", dir |-> NoDir, n |-> 0, index |-> 0,
              wrote |-> {}, exitedBeside |-> FALSE]]
  /\ dirs = {}
  /\ disk = {}
  /\ pc = "wrapper"
  /\ error = "none"
  /\ tmpdir = FALSE
  /\ files = {}
  /\ urls = <<>>
  /\ index = 0
  /\ progress_msg = 0
  /\ live = {}
  /\ log = <<>>
  /\ results = <<>>

\* the handler returns
Return == pc' = "returned" /\ error' = error

\* Variant of ExitWorkspace: the directory is made with mkdtemp() and never
\* removed
ExitWorkspace_Leak == UNCHANGED ws

\* TemporaryDirectory.__exit__: the directory and everything in it is removed
ExitWorkspace == tmpdir' = FALSE /\ files' = {}

\* an exception leaves the handler from outside the with block
RaiseOutside(e) == pc' = "raised" /\ error' = e /\ UNCHANGED ws

\* an exception leaves the handler from inside the with block
Raise(e) == pc' = "raised" /\ error' = e /\ ExitWorkspace

\* the next statement, inside the with block
Goto(label) == pc' = label /\ error' = error /\ UNCHANGED ws

\* Variant of IsOwner: only the presence of a user is checked
IsOwner_AnyUser == user # <<>>

IsOwner == user # <<>> /\ user[1] = OWNER_ID

\* owner_only.wrapper
Wrapper ==
  /\ pc = "wrapper"
  /\ IF ~IsOwner
     THEN IF hasMessage
          THEN \E r \in TelegramResults :
                 /\ Reply("unauthorized", r)
                 /\ IF r = "ok" THEN Return /\ UNCHANGED ws ELSE RaiseOutside(r)
          ELSE Return /\ UNCHANGED <<ws, log>>
     ELSE Goto("document") /\ UNCHANGED log
  /\ UNCHANGED <<input, loop, msgs, results>>

\* Variant of CheckDocument: the return of line 75 is left out
CheckDocument_NoReturn ==
  /\ pc = "document"
  /\ IF ~hasMessage
     THEN RaiseOutside("AttributeError") /\ UNCHANGED log
     ELSE IF document = <<>>
     THEN \E r \in TelegramResults :
            /\ Reply("no_document", r)
            /\ IF r = "ok" THEN Return /\ UNCHANGED ws ELSE RaiseOutside(r)
     ELSE IF ~endswith(lower(document[1]), TxtSuffix)
     THEN \E r \in TelegramResults :
            /\ Reply("not_txt", r)
            /\ IF r = "ok" THEN Goto("get_file") ELSE RaiseOutside(r)
     ELSE Goto("get_file") /\ UNCHANGED log
  /\ UNCHANGED <<input, loop, msgs, results>>

\* handle_document up to the second early return
CheckDocument ==
  /\ pc = "document"
  /\ IF ~hasMessage
     THEN RaiseOutside("AttributeError") /\ UNCHANGED log
     ELSE IF document = <<>>
     THEN \E r \in TelegramResults :
            /\ Reply("no_document", r)
            /\ IF r = "ok" THEN Return /\ UNCHANGED ws ELSE RaiseOutside(r)
     ELSE IF ~endswith(lower(document[1]), TxtSuffix)
     THEN \E r \in TelegramResults :
            /\ Reply("not_txt", r)
            /\ IF r = "ok" THEN Return /\ UNCHANGED ws ELSE RaiseOutside(r)
     ELSE Goto("get_file") /\ UNCHANGED log
  /\ UNCHANGED <<input, loop, msgs, results>>

\* file = await bot.get_file(document.file_id)
GetFile ==
  /\ pc = "get_file"
  /\ \E r \in TelegramResults :
       /\ Reply("get_file", r)
       /\ IF r = "ok" THEN Goto("with") ELSE RaiseOutside(r)
  /\ UNCHANGED <<input, loop, msgs, results>>

\* with tempfile.TemporaryDirectory() as tmpdir
EnterWorkspace ==
  /\ pc = "with"
  /\ \E r \in {"ok", "OSError"} :
       /\ Reply("mkdtemp", r)
       /\ IF r = "ok"
          THEN pc' = "download" /\ error' = error /\ tmpdir' = TRUE /\ files' = {}
          ELSE RaiseOutside(r)
  /\ UNCHANGED <<input, loop, msgs, results>>

\* await file.download_to_drive(txt_fp)
Download ==
  /\ pc = "download"
  /\ \E r \in TelegramResults :
       /\ Reply("download", r)
       /\ IF r = "ok"
          THEN pc' = "parse" /\ error' = error /\ tmpdir' = tmpdir
               /\ files' = files \cup {TxtPath}
          ELSE Raise(r)
  /\ UNCHANGED <<input, loop, msgs, results>>

\* Variant of ParseUrls: the "Found n valid URLs" reply of line 97 is left
\* out
ParseUrls_NoStart ==
  /\ pc = "parse"
  /\ urls' = FilterUrls(fileLines)
  /\ IF urls' = <<>> THEN Goto("no_urls") ELSE Goto("for")
  /\ UNCHANGED <<input, index, msgs, log, results>>

\* lines = f.readlines(); urls = [...]; if not urls
ParseUrls ==
  /\ pc = "parse"
  /\ urls' = FilterUrls(fileLines)
  /\ IF urls' = <<>> THEN Goto("no_urls") ELSE Goto("batch_start")
  /\ UNCHANGED <<input, index, msgs, log, results>>

\* Variant of NoValidUrls: the return of line 95 is left out
NoValidUrls_NoReturn ==
  /\ pc = "no_urls"
  /\ \E r \in TelegramResults :
       /\ Reply("no_valid_urls", r)
       /\ IF r = "ok" THEN Goto("batch_start") ELSE Raise(r)
  /\ UNCHANGED <<input, loop, msgs, results>>

\* if not urls: reply and return (lines 90-95)
NoValidUrls ==
  /\ pc = "no_urls"
  /\ \E r \in TelegramResults :
       /\ Reply("no_valid_urls", r)
       /\ IF r = "ok" THEN Return /\ ExitWorkspace ELSE Raise(r)
  /\ UNCHANGED <<input, loop, msgs, results>>

\* the "Found n valid URLs" reply (line 97)
BatchStart ==
  /\ pc = "batch_start"
  /\ \E r \in TelegramResults :
       /\ Call("batch_start", 0, r, 0, Len(urls), NoUrl)
       /\ IF r = "ok" THEN Goto("for") ELSE Raise(r)
  /\ UNCHANGED <<input, loop, msgs, results>>

\* for index, url in enumerate(urls, start=1)
ForNext ==
  /\ pc = "for"
  /\ IF index < Len(urls)
     THEN index' = index + 1 /\ Goto("progress")
     ELSE index' = index /\ Goto("completion")
  /\ UNCHANGED <<input, urls, msgs, log, results>>

\* progress_msg = await update.message.reply_text(...) (line 101)
Progress ==
  /\ pc = "progress"
  /\ \E r \in TelegramResults :
       /\ Call("progress", index, r, index, Len(urls), urls[index])
       /\ IF r = "ok"
          THEN /\ Goto("chat_action")
               /\ progress_msg' = index
               /\ live' = live \cup {index}
          ELSE Raise(r) /\ UNCHANGED msgs
  /\ UNCHANGED <<input, loop, results>>

\* await bot.send_chat_action(...) (line 116): a TelegramError is not a
\* CalledProcessError, so it leaves the try statement and the handler
ChatAction ==
  /\ pc = "chat_action"
  /\ \E r \in TelegramResults :
       /\ Call("chat_action", index, r, 0, 0, NoUrl)
       /\ IF r = "ok" THEN Goto("ffmpeg") ELSE Raise(r)
  /\ UNCHANGED <<input, loop, msgs, results>>

\* what subprocess.run(ffmpeg_cmd, check=True) can do: return (exit status
\* 0), raise CalledProcessError (non-zero exit status), or raise OSError
\* (the executable cannot be launched)
TranscodeResults == {"ok", "CalledProcessError", "OSError"}

\* subprocess.run(ffmpeg_cmd, check=True) and the except clause it selects
Transcode ==
  /\ pc = "ffmpeg"
  /\ \E r \in TranscodeResults :
       /\ Call("ffmpeg", index, r, index, 0, urls[index])
       /\ CASE r = "ok" ->
                 /\ pc' = "send_video" /\ error' = error /\ tmpdir' = tmpdir
                 /\ files' = files \cup {VideoPath(index)}
                 /\ results' = results
            [] r = "CalledProcessError" ->
                 /\ pc' = "except_transcode" /\ error' = error /\ tmpdir' = tmpdir
                 /\ \E partial \in BOOLEAN :
                      files' = IF partial THEN files \cup {VideoPath(index)} ELSE files
                 /\ results' = Append(results, Outcome("TranscodeFailed"))
            [] r = "OSError" ->
                 Raise(r) /\ results' = results
  /\ UNCHANGED <<input, loop, msgs>>

\* Variant of TranscodeFailedNotice: the text does not name the url
TranscodeFailedNotice_NoUrl ==
  /\ pc = "except_transcode"
  /\ \E r \in TelegramResults :
       /\ Call("transcode_failed_notice", index, r, 0, 0, NoUrl)
       /\ IF r = "ok" THEN Goto("except_transcode_delete") ELSE Raise(r)
  /\ UNCHANGED <<input, loop, msgs, results>>

\* the reply of the except CalledProcessError clause (line 119)
TranscodeFailedNotice ==
  /\ pc = "except_transcode"
  /\ \E r \in TelegramResults :
       /\ Call("transcode_failed_notice", index, r, 0, 0, urls[index])
       /\ IF r = "ok" THEN Goto("except_transcode_delete") ELSE Raise(r)
  /\ UNCHANGED <<input, loop, msgs, results>>

\* Variant of TranscodeFailedDelete: the continue of line 121 is left out
TranscodeFailedDelete_NoContinue ==
  /\ pc = "except_transcode_delete"
  /\ \E r \in TelegramResults :
       /\ Call("delete", progress_msg, r, 0, 0, NoUrl)
       /\ IF r = "ok"
          THEN Goto("send_video") /\ live' = live \ {progress_msg}
          ELSE Raise(r) /\ live' = live
  /\ UNCHANGED <<input, loop, progress_msg, results>>

\* Variant of TranscodeFailedDelete: the delete of line 120 is left out
TranscodeFailedDelete_NoDelete ==
  /\ pc = "except_transcode_delete"
  /\ Goto("for")
  /\ UNCHANGED <<input, loop, msgs, log, results>>

\* await progress_msg.delete(); continue (lines 120-121)
TranscodeFailedDelete ==
  /\ pc = "except_transcode_delete"
  /\ \E r \in TelegramResults :
       /\ Call("delete", progress_msg, r, 0, 0, NoUrl)
       /\ IF r = "ok"
          THEN Goto("for") /\ live' = live \ {progress_msg}
          ELSE Raise(r) /\ live' = live
  /\ UNCHANGED <<input, loop, progress_msg, results>>

\* Variant of SendVideo: send_video is scheduled as a task and not awaited,
\* so the loop goes on before the delivery has an outcome
SendVideo_NotAwaited ==
  /\ pc = "send_video"
  /\ \/ /\ VideoPath(index) \in files
        /\ Call("open", index, "ok", index, 0, NoUrl)
        /\ Goto("delete")
        /\ results' = results
     \/ /\ Call("open", index, "OSError", index, 0, NoUrl)
        /\ Goto("except_delivery")
        /\ results' = Append(results, Outcome("DeliveryFailed"))
  /\ UNCHANGED <<input, loop, msgs>>

\* with open(video_path, "rb") as video_file: await bot.send_video(...), and
\* the except Exception clause either call selects (lines 124-132)
SendVideo ==
  /\ pc = "send_video"
  /\ \/ /\ VideoPath(index) \in files
        /\ \E r \in TelegramResults :
             /\ log' = log \o << Entry("open", index, "ok", index, 0, NoUrl),
                                 Entry("send_video", index, r, index, Len(urls), NoUrl) >>
             /\ IF r = "ok"
                THEN Goto("delete") /\ results' = Append(results, Outcome("Delivered"))
                ELSE Goto("except_delivery")
                     /\ results' = Append(results, Outcome("DeliveryFailed"))
     \/ /\ Call("open", index, "OSError", index, 0, NoUrl)
        /\ Goto("except_delivery")
        /\ results' = Append(results, Outcome("DeliveryFailed"))
  /\ UNCHANGED <<input, loop, msgs>>

\* Variant of DeliveryFailedNotice: the except clause also deletes the
\* progress message, as the except clause of line 118 does
DeliveryFailedNotice_AndDelete ==
  /\ pc = "except_delivery"
  /\ \E r \in TelegramResults :
       IF r = "ok"
       THEN /\ log' = log \o << Entry("delivery_failed_notice", index, r, index, 0, NoUrl),
                                 Entry("delete", progress_msg, "ok", 0, 0, NoUrl) >>
            /\ live' = live \ {progress_msg}
            /\ Goto("delete")
       ELSE /\ Call("delivery_failed_notice", index, r, index, 0, NoUrl)
            /\ live' = live
            /\ Raise(r)
  /\ UNCHANGED <<input, loop, progress_msg, results>>

\* the reply of the except Exception clause (line 133)
DeliveryFailedNotice ==
  /\ pc = "except_delivery"
  /\ \E r \in TelegramResults :
       /\ Call("delivery_failed_notice", index, r, index, 0, NoUrl)
       /\ IF r = "ok" THEN Goto("delete") ELSE Raise(r)
  /\ UNCHANGED <<input, loop, msgs, results>>

\* await progress_msg.delete() (line 134)
Delete ==
  /\ pc = "delete"
  /\ \E r \in TelegramResults :
       /\ Call("delete", progress_msg, r, 0, 0, NoUrl)
       /\ IF r = "ok"
          THEN Goto("for") /\ live' = live \ {progress_msg}
          ELSE Raise(r) /\ live' = live
  /\ UNCHANGED <<input, loop, progress_msg, results>>

\* the "All downloads processed" reply and the end of the with block
Completion ==
  /\ pc = "completion"
  /\ \E r \in TelegramResults :
       /\ Reply("completion", r)
       /\ IF r = "ok" THEN Return /\ ExitWorkspace ELSE Raise(r)
  /\ UNCHANGED <<input, loop, msgs, results>>

Next ==
  \/ Wrapper
  \/ CheckDocument
  \/ GetFile
  \/ EnterWorkspace
  \/ Download
  \/ ParseUrls
  \/ NoValidUrls
  \/ BatchStart
  \/ ForNext
  \/ Progress
  \/ ChatAction
  \/ Transcode
  \/ TranscodeFailedNotice
  \/ TranscodeFailedDelete
  \/ SendVideo
  \/ DeliveryFailedNotice
  \/ Delete
  \/ Completion

Spec == Init /\ [][Next]_vars

\* ------------------------------------------------------------------------
\* Vocabulary of the properties

\* the handler has ended, by a return or by an exception
Ended == pc \in {"returned", "raised"}

\* the call was made and had this result
Logged(kind, item, res) ==
  \E k \in DOMAIN log :
    log[k].kind = kind /\ log[k].item = item /\ log[k].res = res

\* the call was made
Attempted(kind, item) ==
  \E k \in DOMAIN log : log[k].kind = kind /\ log[k].item = item

\* the transcode step of item i failed: non-zero exit status, or no launch
TranscodeFailedAt(i) ==
  Logged("ffmpeg", i, "CalledProcessError") \/ Logged("ffmpeg", i, "OSError")

\* the delivery of item i failed: the file could not be opened or sent
DeliveryFailedAt(i) ==
  Logged("open", i, "OSError") \/ Logged("send_video", i, "TelegramError")

\* item i was started: its progress message was asked for
Started(i) == Attempted("progress", i)

\* A text, chat-action or file-transfer call of the transport failed.  The
\* spec's section 7 lets such an error end the batch; the failures of
\* send_video and of delete are the per-item ones and are not counted here.
TransportFault ==
  \E k \in DOMAIN log :
    log[k].res = "TelegramError" /\ log[k].kind \notin {"send_video", "delete"}

OutcomeKinds == {"Delivered", "TranscodeFailed", "DeliveryFailed"}

ItemKinds ==
  {"progress", "chat_action", "ffmpeg", "transcode_failed_notice", "open",
   "send_video", "delivery_failed_notice", "delete"}

\* ------------------------------------------------------------------------
\* Properties

\* C1: if the transcode step of item i fails, no delivery is attempted for
\* item i, the batch is not aborted and item i+1 (when it exists) is started.
\* Stated for the runs in which no transport call fails.
C1_TranscodeFailureIsLocal ==
  ~TransportFault =>
    \A i \in 1..Len(urls) :
      TranscodeFailedAt(i) =>
        /\ ~Attempted("open", i)
        /\ ~Attempted("send_video", i)
        /\ (Ended => error = "none")
        /\ (Ended /\ i < Len(urls) => Started(i + 1))

\* C2: if the transcode step of item i succeeds and the delivery fails, the
\* outcome of item i is DeliveryFailed, a delivery-failure notice is sent and
\* item i+1 (when it exists) is started.  Stated for the runs in which no
\* transport call fails.
C2_DeliveryFailureIsLocal ==
  ~TransportFault =>
    \A i \in 1..Len(urls) :
      (Logged("ffmpeg", i, "ok") /\ DeliveryFailedAt(i)) =>
        /\ Len(results) >= i
        /\ results[i].outcome = "DeliveryFailed"
        /\ (Ended => Logged("delivery_failed_notice", i, "ok"))
        /\ (Ended /\ i < Len(urls) => Started(i + 1))

\* C3: once the handler has ended, by a return or by an exception, the
\* workspace directory and every file under it no longer exist.
C3_WorkspaceRemovedOnEveryExit == Ended => (tmpdir = FALSE /\ files = {})

\* an exception left the handler while urls.txt and a video were on disk
C3_Witness ==
  /\ pc = "raised"
  /\ Logged("download", 0, "ok")
  /\ \E i \in 1..Len(urls) : Logged("ffmpeg", i, "ok")

\* the loop has run out of items
BatchCompleted == pc = "completion" \/ Attempted("completion", 0)

\* C4: once the batch completes, exactly one outcome per URL has been
\* produced, each Delivered, TranscodeFailed or DeliveryFailed, and the k-th
\* outcome is that of the k-th URL of the filtered input list.
C4_OneOutcomePerUrl ==
  BatchCompleted =>
    /\ urls = FilterUrls(fileLines)
    /\ Len(results) = Len(urls)
    /\ \A k \in 1..Len(results) :
         /\ results[k].outcome \in OutcomeKinds
         /\ results[k].index = k
         /\ results[k].url = urls[k]

\* a batch of three URLs completed with one outcome of each kind
C4_Witness ==
  /\ pc = "returned"
  /\ Logged("completion", 0, "ok")
  /\ Len(results) = 3
  /\ {results[k].outcome : k \in 1..Len(results)} = OutcomeKinds

\* C5: any failure of the transcode step of item i, a non-zero exit status or
\* a failure to launch, becomes the TranscodeFailed outcome of item i with a
\* failure notice; it does not leave the loop and the items after i are
\* started.  Stated for the runs in which no transport call fails.
C5_TranscodeFailureBecomesOutcome ==
  ~TransportFault =>
    \A i \in 1..Len(urls) :
      TranscodeFailedAt(i) =>
        /\ Len(results) >= i
        /\ results[i].outcome = "TranscodeFailed"
        /\ (Ended => Logged("transcode_failed_notice", i, "ok"))
        /\ (Ended => error = "none")
        /\ (Ended => \A j \in (i + 1)..Len(urls) : Started(j))

\* the update passes the owner and .txt checks and its file has no line
\* that ends in .mpd or .m3u8
EmptyListRun ==
  /\ IsOwner
  /\ hasMessage
  /\ document # <<>>
  /\ endswith(lower(document[1]), TxtSuffix)
  /\ FilterUrls(fileLines) = <<>>

C7_OneProgressMessageAtATime ==
  /\ Cardinality(live) <= 1
  /\ \A k \in DOMAIN log :
       /\ (log[k].kind = "progress" /\ log[k].item > 1) =>
            \E j \in 1..(k - 1) :
              /\ log[j].kind = "delete"
              /\ log[j].item = log[k].item - 1
              /\ log[j].res = "ok"
       /\ log[k].kind = "completion" =>
            /\ live = {}
            /\ \E j \in 1..(k - 1) :
                 /\ log[j].kind = "delete"
                 /\ log[j].item = Len(urls)
                 /\ log[j].res = "ok"

\* a batch completed whose first item failed to transcode and whose second
\* item was delivered
C7_Witness ==
  /\ Logged("completion", 0, "ok")
  /\ Len(results) >= 2
  /\ results[1].outcome = "TranscodeFailed"
  /\ results[2].outcome = "Delivered"

\* C8: a failed delete of a progress message does not end the batch: no
\* exception leaves the handler, and a handler that has ended has started
\* every item and sent the completion notice.
C8_RetractFailureSwallowed ==
  (\E i \in 1..Len(urls) : Logged("delete", i, "TelegramError")) =>
    /\ error = "none"
    /\ (Ended => /\ \A j \in 1..Len(urls) : Started(j)
                 /\ Logged("completion", 0, "ok"))

\* C9: a batch that has started and whose handler has ended has sent the
\* completion notice, whatever failed in transcoding or delivery.  Stated
\* for the runs in which no transport call fails.
C9_StartedBatchCompletes ==
  (Ended /\ Logged("batch_start", 0, "ok") /\ ~TransportFault) =>
    Logged("completion", 0, "ok")

\* C10: items are processed one at a time in list order: while a step of
\* item index is due, exactly the items before it have an outcome; the loop
\* moves on only when item index has one; the calls of the items appear in
\* the log in list order (each call is of the item of the call before it or
\* of a later one; the calls before the loop carry item 0).
C10_ItemsStrictlySequential ==
  /\ index \in 0..Len(urls)
  /\ (pc \in {"progress", "chat_action", "ffmpeg", "send_video"} =>
        Len(results) = index - 1)
  /\ (pc \in {"except_transcode", "except_transcode_delete", "except_delivery",
              "delete", "for", "completion"} =>
        Len(results) = index)
  /\ Len(results) <= index
  /\ Len(results) >= index - 1
  /\ \A k \in 1..Len(results) : results[k].index = k
  /\ (index > 0 => urls = FilterUrls(fileLines))
  /\ \A k \in DOMAIN log :
       log[k].kind \in ItemKinds =>
         /\ log[k].item \in 1..index
         /\ (k > 1 => log[k - 1].item <= log[k].item)
         /\ (log[k].url # NoUrl => log[k].url = urls[log[k].item])

\* the third item is about to start after the first two ended differently
C10_Witness ==
  /\ pc = "progress"
  /\ index = 3
  /\ Len(results) = 2
  /\ results[1].outcome # results[2].outcome

\* how many calls of this kind, for this item, had this result
Count(kind, item, res) ==
  Cardinality({k \in DOMAIN log :
    log[k].kind = kind /\ log[k].item = item /\ log[k].res = res})

\* how many calls of this kind were made for this item
CountAll(kind, item) ==
  Cardinality({k \in DOMAIN log : log[k].kind = kind /\ log[k].item = item})

\* C11: a batch of n URLs whose completion text was sent has sent exactly
\* one batch-start text, one progress message per item, each deleted exactly
\* once, one video for each Delivered item and none for any other, one
\* failure text (of the kind of the failure) for each failed item and none
\* for a delivered one, and one completion text.
C11_ExactOutboundMessages ==
  Logged("completion", 0, "ok") =>
    /\ Count("batch_start", 0, "ok") = 1
    /\ CountAll("batch_start", 0) = 1
    /\ CountAll("completion", 0) = 1
    /\ Len(results) = Len(urls)
    /\ \A k \in DOMAIN log : log[k].item \in 0..Len(urls)
    /\ \A i \in 1..Len(urls) :
         /\ Count("progress", i, "ok") = 1
         /\ CountAll("progress", i) = 1
         /\ Count("delete", i, "ok") = 1
         /\ CountAll("delete", i) = 1
         /\ Count("send_video", i, "ok") =
              (IF results[i].outcome = "Delivered" THEN 1 ELSE 0)
         /\ Count("transcode_failed_notice", i, "ok") =
              (IF results[i].outcome = "TranscodeFailed" THEN 1 ELSE 0)
         /\ CountAll("transcode_failed_notice", i) <= 1
         /\ Count("delivery_failed_notice", i, "ok") =
              (IF results[i].outcome = "DeliveryFailed" THEN 1 ELSE 0)
         /\ CountAll("delivery_failed_notice", i) <= 1

\* a completed batch of three: delivered, failed to transcode, failed to send
C11_Witness ==
  /\ Logged("completion", 0, "ok")
  /\ Len(results) = 3
  /\ results[1].outcome = "Delivered"
  /\ results[2].outcome = "TranscodeFailed"
  /\ results[3].outcome = "DeliveryFailed"

FailureNoticeKinds == {"transcode_failed_notice", "delivery_failed_notice"}

\* C12, as claimed: every failure message, of either phase, carries the url
\* of the item that failed.
C12_FailureNoticeNamesUrl ==
  \A k \in DOMAIN log :
    (log[k].kind \in FailureNoticeKinds /\ log[k].res = "ok") =>
      log[k].url = urls[log[k].item]

\* the item is past the reply of its except clause
PastNotice(i) ==
  \/ i < index
  \/ pc \in {"except_transcode_delete", "delete", "for", "completion", "returned"}

\* C12, amended: the two failure messages differ, so each tells the phase.
\* The message of a transcode failure carries the url of the failed item and
\* no index; the message of a delivery failure carries the 1-based index of
\* the failed item and no url.  Each is sent for an item that failed in that
\* phase, and every failed item that is past its except clause has had its
\* message sent.
C12_FailureNoticeIdentifiesItem ==
  /\ \A k \in DOMAIN log :
       /\ log[k].kind = "transcode_failed_notice" =>
            /\ log[k].url = urls[log[k].item]
            /\ log[k].index = 0
            /\ results[log[k].item].outcome = "TranscodeFailed"
       /\ log[k].kind = "delivery_failed_notice" =>
            /\ log[k].url = NoUrl
            /\ log[k].index = log[k].item
            /\ results[log[k].item].outcome = "DeliveryFailed"
  /\ \A i \in 1..Len(results) :
       /\ (results[i].outcome = "TranscodeFailed" /\ PastNotice(i)) =>
            Logged("transcode_failed_notice", i, "ok")
       /\ (results[i].outcome = "DeliveryFailed" /\ PastNotice(i)) =>
            Logged("delivery_failed_notice", i, "ok")

\* both failure messages were sent in one batch
C12_Witness ==
  /\ \E i \in 1..Len(urls) : Logged("transcode_failed_notice", i, "ok")
  /\ \E i \in 1..Len(urls) : Logged("delivery_failed_notice", i, "ok")

\* the handler is in the wrapper or has ended
OutsideBody == pc \in {"wrapper", "returned", "raised"}

\* C13: for an update whose sender is absent or is not OWNER_ID the body of
\* the handler never runs: nothing is fetched, no workspace is made, nothing
\* is parsed, transcoded or sent; the only call ever made is one Unauthorized
\* reply, and none when the update has no message.  The body runs only for
\* the sender whose id is OWNER_ID.
C13_OwnerOnly ==
  /\ user # <<OWNER_ID>> =>
       /\ OutsideBody
       /\ Len(log) <= 1
       /\ \A k \in DOMAIN log : log[k].kind = "unauthorized"
       /\ (~hasMessage => log = <<>>)
       /\ (pc = "returned" /\ hasMessage => Logged("unauthorized", 0, "ok"))
       /\ tmpdir = FALSE
       /\ files = {}
       /\ urls = <<>>
       /\ index = 0
       /\ live = {}
       /\ results = <<>>
  /\ (\E k \in DOMAIN log : log[k].kind # "unauthorized") => user = <<OWNER_ID>>

\* another user sent a .txt file with a manifest url in it and got the
\* Unauthorized reply
C13_Witness ==
  /\ user = <<OtherId>>
  /\ document # <<>>
  /\ endswith(lower(document[1]), TxtSuffix)
  /\ FilterUrls(fileLines) # <<>>
  /\ pc = "returned"
  /\ Logged("unauthorized", 0, "ok")

\* the positions in the log of the ffmpeg calls
TranscodeCalls == {k \in DOMAIN log : log[k].kind = "ffmpeg"}

\* C14: the output path of an item is video_{index}.mp4 in the workspace,
\* index being the 1-based position of its url in the filtered list; no two
\* items of a batch have the same path, also when the earlier one failed;
\* no output path is the path of urls.txt; the workspace holds nothing but
\* urls.txt and output paths of items that were transcoded.
C14_OutputPathsDistinct ==
  /\ \A k \in TranscodeCalls :
       /\ log[k].index = log[k].item
       /\ log[k].index \in 1..Len(FilterUrls(fileLines))
       /\ log[k].url = FilterUrls(fileLines)[log[k].index]
       /\ VideoPath(log[k].index) # TxtPath
       /\ (log[k].res = "ok" /\ tmpdir) => VideoPath(log[k].index) \in files
       /\ \A j \in TranscodeCalls :
            j # k => VideoPath(log[j].index) # VideoPath(log[k].index)
  /\ files \subseteq {TxtPath} \cup {VideoPath(log[k].index) : k \in TranscodeCalls}

\* the second item is transcoded after the first failed and left a partial
\* file behind
C14_Witness ==
  /\ Logged("ffmpeg", 1, "CalledProcessError")
  /\ Logged("ffmpeg", 2, "ok")
  /\ {VideoPath(1), VideoPath(2), TxtPath} \subseteq files
  /\ Cardinality(files) = 3

\* C16: the batch-start notice is sent at most once and before anything of
\* an item; the completion notice is sent at most once, only when every one
\* of the n items has an outcome, and it is the last call of the run: no
\* progress message, video or failure notice follows it.
C16_BatchMessageOrder ==
  /\ CountAll("batch_start", 0) <= 1
  /\ CountAll("completion", 0) <= 1
  /\ \A k \in DOMAIN log :
       /\ log[k].kind \in ItemKinds \cup {"completion"} =>
            \E j \in 1..(k - 1) :
              log[j].kind = "batch_start" /\ log[j].res = "ok"
       /\ log[k].kind = "batch_start" =>
            /\ log[k].total = Len(urls)
            /\ Len(urls) > 0
       /\ log[k].kind = "completion" =>
            /\ k = Len(log)
            /\ Len(urls) > 0
            /\ Len(results) = Len(urls)
            /\ \A i \in 1..Len(urls) : Logged("delete", i, "ok")

\* a batch of two whose items both failed to transcode was completed
C16_Witness ==
  /\ pc = "returned"
  /\ Logged("completion", 0, "ok")
  /\ Len(results) = 2
  /\ results[1].outcome = "TranscodeFailed"
  /\ results[2].outcome = "TranscodeFailed"

\* the owner sent a message with no document, or with a document whose
\* name, lower-cased, does not end in .txt
NotATxtDocument ==
  /\ user = <<OWNER_ID>>
  /\ hasMessage
  /\ \/ document = <<>>
     \/ ~endswith(lower(document[1]), <<".", "t", "x", "t">>)

\* C18: such an update is answered with one warning text and nothing else:
\* the handler never gets past the document checks, the file is not
\* fetched, no workspace is made, no url is parsed, nothing is transcoded
\* or sent.
C18_NonTxtRejected ==
  NotATxtDocument =>
    /\ pc \in {"wrapper", "document", "returned", "raised"}
    /\ Len(log) <= 1
    /\ \A k \in DOMAIN log :
         log[k].kind = (IF document = <<>> THEN "no_document" ELSE "not_txt")
    /\ (pc = "returned" => Len(log) = 1 /\ log[1].res = "ok")
    /\ (pc = "raised" => Len(log) = 1 /\ log[1].res = "TelegramError")
    /\ tmpdir = FALSE
    /\ files = {}
    /\ urls = <<>>
    /\ index = 0
    /\ live = {}
    /\ results = <<>>

\* the owner sent v.mp4 holding manifest urls and got the .txt warning
C18_Witness ==
  /\ NotATxtDocument
  /\ document # <<>>
  /\ FilterUrls(fileLines) # <<>>
  /\ pc = "returned"
  /\ Logged("not_txt", 0, "ok")

\* the positions of the lines of the file whose text, stripped and
\* lower-cased, ends in .mpd or .m3u8
MatchingLines ==
  {i \in 1..Len(fileLines) :
     LET t == lower(strip(fileLines[i]))
     IN  \/ endswith(t, <<".", "m", "p", "d">>)
         \/ endswith(t, <<".", "m", "3", "u", "8">>)}

\* how many matching lines there are up to line i
Rank(i) == Cardinality({j \in MatchingLines : j <= i})

\* C19: once the file is parsed, urls holds exactly the matching lines,
\* stripped (not lower-cased), in the order of the file and with repeated
\* lines kept; no call is made while lines are dropped, and no call ever
\* carries a url that is not a matching line.
C19_UrlsAreMatchingLinesInOrder ==
  /\ (Logged("download", 0, "ok") /\ pc # "parse") =>
       /\ Len(urls) = Cardinality(MatchingLines)
       /\ \A i \in MatchingLines : urls[Rank(i)] = strip(fileLines[i])
  /\ pc \in {"no_urls", "batch_start"} => log[Len(log)].kind = "download"
  /\ \A k \in DOMAIN log :
       log[k].url # NoUrl =>
         \E i \in MatchingLines :
           log[k].url = strip(fileLines[i]) /\ log[k].item = Rank(i)

\* the file " b.M3U8", "c.mp4", " b.M3U8" gave the list b.M3U8, b.M3U8
C19_Witness ==
  /\ pc = "batch_start"
  /\ Len(fileLines) = 3
  /\ urls = << <<"b", ".", "M", "3", "U", "8">>, <<"b", ".", "M", "3", "U", "8">> >>

\* ------------------------------------------------------------------------
\* The same update handled twice by a deterministic environment

\* The application calls handle_document once per update it is given
\* (lines 147-152); the second call starts with fresh locals.  What the first
\* call logged is kept aside to compare with.
Rerun ==
  /\ pc \in {"returned", "raised"}
  /\ run = 1
  /\ run' = 2
  /\ prevLog' = log
  /\ prevResults' = results
  /\ pc' = "wrapper"
  /\ error' = "none"
  /\ tmpdir' = FALSE
  /\ files' = {}
  /\ urls' = <<>>
  /\ index' = 0
  /\ progress_msg' = 0
  /\ live' = {}
  /\ log' = <<>>
  /\ results' = <<>>
  /\ UNCHANGED <<update, sideBySide>>

\* The environment is deterministic: a call of the second run has the result
\* the same call (same kind, same item) had in the first run.  Opening a
\* file that does not exist fails whatever happened before; whether a failed
\* ffmpeg leaves a partial file behind is not fixed.
SameResultAsBefore(e) ==
  \/ e.kind = "open" /\ VideoPath(e.item) \notin files
  \/ \A j \in DOMAIN prevLog :
       (prevLog[j].kind = e.kind /\ prevLog[j].item = e.item) =>
         e.res = prevLog[j].res

Replayed ==
  run = 2 => \A k \in (Len(log) + 1)..Len(log') : SameResultAsBefore(log'[k])

InitTwoRuns == Init /\ Len(fileLines) <= MaxRerunLines

NextTwoRuns == (Next /\ Replayed) \/ Rerun

TwoRuns == InitTwoRuns /\ [][NextTwoRuns]_vars

\* what a log entry shows of a call: everything but nothing else
Kinds(l) == [k \in DOMAIN l |-> l[k].kind]

single == <<update, run, prevLog, prevResults, pc, error, ws, loop, msgs, log, results>>

\* the call is inside its with block
Inside(h) == hd[h].pc \in {"download", "loop"}

\* the file the call writes at this path of its workspace
OwnFile(h, path) == [dir |-> hd[h].dir, path |-> path, owner |-> h]

\* writing a file replaces whatever is at that path of that directory
Written(h, path) ==
  {f \in disk : ~(f.dir = hd[h].dir /\ f.path = path)} \cup {OwnFile(h, path)}

\* Variant of HEnter: the workspace is a directory of a fixed name, made
\* with os.makedirs(name, exist_ok=True)
HEnter_FixedDir(h) ==
  /\ hd[h].pc = "with"
  /\ hd' = [hd EXCEPT ![h].pc = "download", ![h].dir = "tmpA"]
  /\ dirs' = dirs \cup {"tmpA"}
  /\ UNCHANGED <<disk, single>>

\* with tempfile.TemporaryDirectory() as tmpdir (line 79): mkdtemp makes a
\* directory whose name no existing directory has
HEnter(h) ==
  /\ hd[h].pc = "with"
  /\ \E d \in DirNames \ dirs :
       /\ hd' = [hd EXCEPT ![h].pc = "download", ![h].dir = d]
       /\ dirs' = dirs \cup {d}
  /\ UNCHANGED <<disk, single>>

\* download_to_drive(txt_fp) and the parse of the file (lines 80-88): n is
\* the number of urls found
HDownload(h) ==
  /\ hd[h].pc = "download"
  /\ \E n \in 0..MaxRerunLines :
       hd' = [hd EXCEPT ![h].pc = "loop", ![h].n = n,
                        ![h].wrote = @ \cup {TxtPath}]
  /\ disk' = Written(h, TxtPath)
  /\ UNCHANGED <<dirs, single>>

\* one iteration of the loop (lines 100-134): ffmpeg writes video_path, or
\* fails and writes nothing
HTranscode(h) ==
  /\ hd[h].pc = "loop"
  /\ hd[h].index < hd[h].n
  /\ \E written \in BOOLEAN :
       IF written
       THEN /\ hd' = [hd EXCEPT ![h].index = @ + 1,
                                ![h].wrote = @ \cup {VideoPath(hd[h].index + 1)}]
            /\ disk' = Written(h, VideoPath(hd[h].index + 1))
       ELSE /\ hd' = [hd EXCEPT ![h].index = @ + 1]
            /\ disk' = disk
  /\ UNCHANGED <<dirs, single>>

\* the with block is left, by a return or by an exception, at any point:
\* TemporaryDirectory.__exit__ removes the directory and all that is in it
HExit(h) ==
  /\ Inside(h)
  /\ hd' = [hd EXCEPT ![h].pc = "done",
                      ![h].exitedBeside =
                         \E g \in Handlers \ {h} : Inside(g) /\ hd[g].wrote # {}]
  /\ dirs' = dirs \ {hd[h].dir}
  /\ disk' = {f \in disk : f.dir # hd[h].dir}
  /\ UNCHANGED single

InitSideBySide ==
  /\ Init
  /\ user = <<OWNER_ID>>
  /\ hasMessage
  /\ document = <<>>

NextSideBySide ==
  \E h \in Handlers : HEnter(h) \/ HDownload(h) \/ HTranscode(h) \/ HExit(h)

SideBySide == InitSideBySide /\ [][NextSideBySide]_vars

\* C17: two calls of the handler never have the same workspace directory
\* while both are inside their with block; every file on disk was written
\* by a call that is still inside its with block and lies in that call's
\* own directory; and every file a call wrote is there as long as the call
\* is inside its with block, whatever the other call cleaned up.
C17_WorkspacesDisjoint ==
  /\ \A g, h \in Handlers :
       (g # h /\ Inside(g) /\ Inside(h)) => hd[g].dir # hd[h].dir
  /\ \A h \in Handlers : Inside(h) => hd[h].dir \in dirs
  /\ \A f \in disk :
       /\ Inside(f.owner)
       /\ f.dir = hd[f.owner].dir
       /\ f.path \in {TxtPath} \cup {VideoPath(i) : i \in 1..hd[f.owner].n}
  /\ \A h \in Handlers :
       Inside(h) => \A path \in hd[h].wrote : OwnFile(h, path) \in disk

\* one call left its with block, having written files, while the other was
\* inside its own with files written; the other still has urls.txt and a
\* video
C17_Witness ==
  /\ hd["first"].pc = "done"
  /\ hd["first"].exitedBeside
  /\ Cardinality(hd["first"].wrote) >= 2
  /\ Inside("second")
  /\ Cardinality(hd["second"].wrote) >= 2

====
